---- MODULE Spec2Model ----
(***************************************************************************)
(* The collapsible Sidebar component of                                    *)
(* src/src/components/core/Sidebar/Sidebar.tsx as a state machine: the     *)
(* component instance (props, this.state, mediumBreakpointPx, sidebarRef), *)
(* the global window object and the listeners registered on window and     *)
(* document.  Pixel quantities are JavaScript numbers; they are kept in    *)
(* hundredths of a pixel so that the 0.02 margin of calculateMaxBreakpoint *)
(* is exact.                                                               *)
(***************************************************************************)
EXTENDS Integers, Sequences, FiniteSets, TLC

\* Viewport widths that are explored: 0, 50, ..., 50 * MaxWidthSteps pixels.
MaxWidthSteps == 4

(***************************************************************************)
(* JavaScript values                                                       *)
(***************************************************************************)
\* a finite number of px pixels
Num(px) == [k |-> "number", v |-> px * 100]
NaN == [k |-> "NaN", v |-> 0]
Infinity == [k |-> "Infinity", v |-> 0]
undefined == [k |-> "undefined", v |-> 0]

\* ToBoolean: 0, NaN and undefined are falsy
Truthy(x) ==
  CASE x.k = "number" -> x.v # 0
    [] x.k = "Infinity" -> TRUE
    [] OTHER -> FALSE

\* a < b on JavaScript values (undefined converts to NaN; NaN compares false)
JsLt(a, b) ==
  CASE a.k \in {"NaN", "undefined"} \/ b.k \in {"NaN", "undefined"} -> FALSE
    [] a.k = "Infinity" -> FALSE
    [] b.k = "Infinity" -> TRUE
    [] OTHER -> a.v < b.v

\* a <= b on JavaScript values
JsLe(a, b) ==
  CASE a.k \in {"NaN", "undefined"} \/ b.k \in {"NaN", "undefined"} -> FALSE
    [] b.k = "Infinity" -> TRUE
    [] a.k = "Infinity" -> FALSE
    [] OTHER -> a.v <= b.v

\* a - hundredths/100 on JavaScript values
JsMinus(a, hundredths) ==
  IF a.k = "number" THEN [k |-> "number", v |-> a.v - hundredths] ELSE a

(***************************************************************************)
(* parseInt(value, 10) on a string given as its sequence of characters     *)
(***************************************************************************)
Radix == 10
DigitChars == <<"0", "1", "2", "3", "4", "5", "6", "7", "8", "9">>
IsDigit(c) == \E i \in 1..Radix : DigitChars[i] = c
DigitValue(c) == (CHOOSE i \in 1..Radix : DigitChars[i] = c) - 1

RECURSIVE TrimStart(_)
TrimStart(s) ==
  IF Len(s) > 0 /\ s[1] = " " THEN TrimStart(Tail(s)) ELSE s

\* the value of the longest digit prefix of s, acc being the value so far
RECURSIVE DigitPrefix(_, _)
DigitPrefix(s, acc) ==
  IF Len(s) > 0 /\ IsDigit(s[1])
    THEN DigitPrefix(Tail(s), acc * Radix + DigitValue(s[1]))
    ELSE acc

parseInt(value) ==
  LET s == TrimStart(value)
      signed == Len(s) > 0 /\ s[1] \in {"+", "-"}
      body == IF signed THEN Tail(s) ELSE s
      magnitude == DigitPrefix(body, 0)
  IN IF Len(body) = 0 \/ ~IsDigit(body[1])
       THEN NaN
       ELSE Num(IF signed /\ s[1] = "-" THEN 0 - magnitude ELSE magnitude)

(***************************************************************************)
(* Sidebar.calculateMaxBreakpoint                                          *)
(***************************************************************************)
\* the margin 0.02, in hundredths of a pixel
Margin == 2

\* calculateMaxBreakpoint without the margin
calculateMaxBreakpoint_NoMargin(value) == parseInt(value)

calculateMaxBreakpoint(value) == JsMinus(parseInt(value), Margin)

(***************************************************************************)
(* Inputs                                                                  *)
(***************************************************************************)
\* PageConfig.SidebarState, and undefined for the optional prop left unset
EXPANDED == "EXPANDED"
COLLAPSED == "COLLAPSED"
AUTO == "AUTO"
unset == "undefined"
Directives == {EXPANDED, COLLAPSED, AUTO, unset}

\* theme.breakpoints.md
Md100px == <<"1", "0", "0", "p", "x">>
Md150px == <<"1", "5", "0", "p", "x">>
MdNone == <<"n", "o", "n", "e">>
Breakpoints == {Md100px, Md150px, MdNone}

\* window.innerWidth in pixels; 80 is the width the documented examples use
Widths == {50 * i : i \in 0..MaxWidthSteps} \cup {80}

\* the global window: an object with an innerWidth, a binding with a falsy
\* value, or no binding at all (to evaluate `window` is then a ReferenceError)
Window(px) == [kind |-> "object", innerWidth |-> Num(px)]
NoWindow == [kind |-> "falsy", innerWidth |-> undefined]
Undeclared == [kind |-> "undeclared", innerWidth |-> undefined]
Windows == {Window(px) : px \in Widths} \cup {NoWindow, Undeclared}

\* event.target of a mousedown, as sidebarRef.current.contains sees it
Targets == {"inside", "outside"}

VARIABLES
  window,              \* the global window object
  props,               \* this.props: initialSidebarState and theme.breakpoints.md
  mediumBreakpointPx,  \* this.mediumBreakpointPx
  state,               \* this.state
  sidebarRef,          \* this.sidebarRef.current: "null" or "element"
  windowListeners,     \* listeners registered on window
  documentListeners,   \* listeners registered on document
  pending,             \* setState calls that are not yet applied to this.state
  dom,                 \* what render last put on the page
  phase,               \* lifecycle: constructed, mounted, unmounted, failed
                       \* (componentDidMount threw), threw (constructor threw)
  log                  \* the last invocation that touched this.state

vars == <<window, props, mediumBreakpointPx, state, sidebarRef,
          windowListeners, documentListeners, pending, dom, phase, log>>

(***************************************************************************)
(* Sidebar.shouldCollapse                                                  *)
(***************************************************************************)
\* shouldCollapse whose EXPANDED case falls through to the AUTO case
shouldCollapse_Fallthrough(p, breakpointPx, win) ==
  CASE p.initialSidebarState = COLLAPSED -> TRUE
    [] OTHER ->
         LET innerWidth == IF win.kind = "object" THEN win.innerWidth ELSE undefined
         IN IF Truthy(innerWidth) THEN JsLe(innerWidth, breakpointPx) ELSE FALSE

shouldCollapse(p, breakpointPx, win) ==
  CASE p.initialSidebarState = EXPANDED -> FALSE
    [] p.initialSidebarState = COLLAPSED -> TRUE
    [] OTHER ->
         \* const { innerWidth } = window || {}
         LET innerWidth == IF win.kind = "object" THEN win.innerWidth ELSE undefined
         IN IF Truthy(innerWidth) THEN JsLe(innerWidth, breakpointPx) ELSE FALSE

(***************************************************************************)
(* this.setState with an object: the partial state is merged into the      *)
(* state; the updates of one handler are applied in the order of the calls *)
(***************************************************************************)
setState(s, partial) ==
  [f \in DOMAIN s |-> IF f \in DOMAIN partial THEN partial[f] ELSE s[f]]

RECURSIVE Flush(_, _)
Flush(s, updates) ==
  IF updates = <<>> THEN s ELSE Flush(setState(s, Head(updates)), Tail(updates))

(***************************************************************************)
(* componentDidUpdate(prevProps): the setState calls it makes, p being     *)
(* this.props                                                              *)
(***************************************************************************)
\* componentDidUpdate that recomputes from prevProps
componentDidUpdate_PrevProps(p, prevProps, win) ==
  IF p.initialSidebarState # prevProps.initialSidebarState
    THEN <<[collapsedSidebar |->
              shouldCollapse(prevProps, calculateMaxBreakpoint(p.md), win)]>>
    ELSE <<>>

\* componentDidUpdate that recomputes on every update
componentDidUpdate_EveryUpdate(p, prevProps, win) ==
  <<[collapsedSidebar |-> shouldCollapse(p, calculateMaxBreakpoint(p.md), win)]>>

componentDidUpdate(p, prevProps, win) ==
  IF p.initialSidebarState # prevProps.initialSidebarState
    THEN <<[collapsedSidebar |->
              shouldCollapse(p, calculateMaxBreakpoint(p.md), win)]>>
    ELSE <<>>

(***************************************************************************)
(* render, with the styles of styled-components.ts that depend on the      *)
(* state                                                                   *)
(***************************************************************************)
StyledSidebarContent(isCollapsed, hide) ==
  [isCollapsed |-> isCollapsed,
   overflow |-> IF hide THEN "hidden" ELSE "auto",
   marginLeft |-> IF isCollapsed THEN "-sidebar" ELSE "none"]

StyledSidebarCollapsedControl(isCollapsed) ==
  [isCollapsed |-> isCollapsed,
   left |-> IF isCollapsed THEN "twoXS" ELSE "-twoXS"]

\* render that hands the chevron control the negated flag
render_ChevronNegated(s) ==
  [ariaExpanded |-> ~s.collapsedSidebar,
   content |-> StyledSidebarContent(s.collapsedSidebar, s.hideScrollbar),
   collapsedControl |-> StyledSidebarCollapsedControl(~s.collapsedSidebar)]

render(s) ==
  [ariaExpanded |-> ~s.collapsedSidebar,
   content |-> StyledSidebarContent(s.collapsedSidebar, s.hideScrollbar),
   collapsedControl |-> StyledSidebarCollapsedControl(s.collapsedSidebar)]

\* nothing of the component is on the page
NotRendered == [rendered |-> FALSE]

\* what an invocation read from this.state and what it asked the state to be
Logged(op, arg, updates) ==
  [op |-> op, arg |-> arg, read |-> state, wrote |-> Flush(state, updates)]

\* Commit that leaves the setState calls in the queue
Commit_Deferred(op, arg, p, win, updates) ==
  LET all == updates \o componentDidUpdate(p, props, win)
  IN /\ state' = state
     /\ pending' = pending \o all
     /\ dom' = render(state')
     /\ mediumBreakpointPx' = calculateMaxBreakpoint(p.md)
     /\ log' = Logged(op, arg, all)

\* The setState calls of one invocation are applied before its event is over,
\* so that the next handler finds them in this.state; the render they cause
\* ends in componentDidUpdate, which refreshes mediumBreakpointPx from the
\* props p the component then has.
Commit(op, arg, p, win, updates) ==
  LET all == updates \o componentDidUpdate(p, props, win)
  IN /\ state' = Flush(state, pending \o all)
     /\ pending' = <<>>
     /\ dom' = render(state')
     /\ mediumBreakpointPx' = calculateMaxBreakpoint(p.md)
     /\ log' = Logged(op, arg, all)

(***************************************************************************)
(* constructor                                                             *)
(***************************************************************************)
Constructed(p, win) ==
  LET breakpointPx == calculateMaxBreakpoint(p.md)
  IN /\ window = win
     /\ props = p
     /\ mediumBreakpointPx = breakpointPx
     /\ IF win.kind = "undeclared"
          \* `window || {}` and `window ? ... : Infinity` throw: this.state is
          \* never assigned and there is no component
          THEN /\ state = undefined
               /\ phase = "threw"
          ELSE /\ state = [collapsedSidebar |-> shouldCollapse(p, breakpointPx, win),
                           lastInnerWidth |-> IF win.kind = "object"
                                                THEN win.innerWidth
                                                ELSE Infinity,
                           hideScrollbar |-> FALSE]
               /\ phase = "constructed"
     /\ sidebarRef = "null"
     /\ windowListeners = {}
     /\ documentListeners = {}
     /\ pending = <<>>
     /\ dom = NotRendered
     /\ log = [op |-> "constructor", arg |-> "", read |-> state, wrote |-> state]

Init ==
  \E d \in Directives, md \in Breakpoints, win \in Windows :
    Constructed([initialSidebarState |-> d, md |-> md], win)

(***************************************************************************)
(* componentDidMount, componentWillUnmount                                 *)
(***************************************************************************)
\* window.addEventListener throws when window is not an object: React then
\* discards the component
componentDidMount ==
  /\ phase = "constructed"
  /\ IF window.kind = "object"
       THEN /\ windowListeners' = windowListeners \cup {"checkMobileOnResize"}
            /\ documentListeners' = documentListeners \cup {"handleClickOutside"}
            /\ sidebarRef' = "element"
            /\ dom' = render(state)
            /\ phase' = "mounted"
       ELSE /\ phase' = "failed"
            /\ UNCHANGED <<windowListeners, documentListeners, sidebarRef, dom>>
  /\ UNCHANGED <<window, props, mediumBreakpointPx, state, pending, log>>

\* componentWillUnmount that leaves the resize listener registered
componentWillUnmount_Leak ==
  /\ phase = "mounted"
  /\ documentListeners' = documentListeners \ {"handleClickOutside"}
  /\ sidebarRef' = "null"
  /\ dom' = NotRendered
  /\ phase' = "unmounted"
  /\ UNCHANGED <<window, props, mediumBreakpointPx, state, pending, log,
                 windowListeners>>

componentWillUnmount ==
  /\ phase = "mounted"
  /\ windowListeners' = windowListeners \ {"checkMobileOnResize"}
  /\ documentListeners' = documentListeners \ {"handleClickOutside"}
  /\ sidebarRef' = "null"
  /\ dom' = NotRendered
  /\ phase' = "unmounted"
  /\ UNCHANGED <<window, props, mediumBreakpointPx, state, pending, log>>

(***************************************************************************)
(* handleClickOutside, checkMobileOnResize, toggleCollapse, hideScrollbar: *)
(* the setState calls each makes                                           *)
(***************************************************************************)
\* handleClickOutside without the breakpoint test
handleClickOutside_AnyWidth(target, current, breakpointPx, win) ==
  IF win.kind = "object" /\ current = "element" /\ target = "outside"
    THEN <<[collapsedSidebar |-> TRUE]>>
    ELSE <<>>

handleClickOutside(target, current, breakpointPx, win) ==
  IF win.kind = "object"
       /\ current = "element"
       /\ target = "outside"
       /\ JsLe(win.innerWidth, breakpointPx)
    THEN <<[collapsedSidebar |-> TRUE]>>
    ELSE <<>>

\* checkMobileOnResize with the operands of the narrowing test swapped
checkMobileOnResize_Widened(s, breakpointPx, win) ==
  IF win.kind # "object"
    THEN <<>>
    ELSE (IF JsLt(s.lastInnerWidth, win.innerWidth)
               /\ JsLe(win.innerWidth, breakpointPx)
            THEN <<[collapsedSidebar |-> TRUE]>>
            ELSE <<>>)
         \o <<[lastInnerWidth |-> win.innerWidth]>>

\* checkMobileOnResize that follows the breakpoint in both directions
checkMobileOnResize_Follow(s, breakpointPx, win) ==
  IF win.kind # "object"
    THEN <<>>
    ELSE <<[collapsedSidebar |-> JsLe(win.innerWidth, breakpointPx)],
           [lastInnerWidth |-> win.innerWidth]>>

\* checkMobileOnResize that returns once it has forced the collapse
checkMobileOnResize_ReturnEarly(s, breakpointPx, win) ==
  IF win.kind # "object"
    THEN <<>>
    ELSE IF JsLt(win.innerWidth, s.lastInnerWidth)
              /\ JsLe(win.innerWidth, breakpointPx)
           THEN <<[collapsedSidebar |-> TRUE]>>
           ELSE <<[lastInnerWidth |-> win.innerWidth]>>

checkMobileOnResize(s, breakpointPx, win) ==
  IF win.kind # "object"
    THEN <<>>
    ELSE (IF JsLt(win.innerWidth, s.lastInnerWidth)
               /\ JsLe(win.innerWidth, breakpointPx)
            THEN <<[collapsedSidebar |-> TRUE]>>
            ELSE <<>>)
         \o <<[lastInnerWidth |-> win.innerWidth]>>

\* toggleCollapse that only ever collapses
toggleCollapse_CollapseOnly(s) == <<[collapsedSidebar |-> TRUE]>>

toggleCollapse(s) == <<[collapsedSidebar |-> ~s.collapsedSidebar]>>

\* a collapseSidebar callback that collapses and never expands
collapseSidebar_CollapseOnly(s) == <<[collapsedSidebar |-> TRUE]>>

\* the collapseSidebar prop handed to SidebarNav: this.toggleCollapse
collapseSidebar(s) == toggleCollapse(s)

\* hideScrollbar that writes the wrong field
hideScrollbar_WrongField(newValue) == <<[collapsedSidebar |-> newValue]>>

hideScrollbar(newValue) == <<[hideScrollbar |-> newValue]>>

(***************************************************************************)
(* Renders and events                                                      *)
(***************************************************************************)
\* which of the props differs between prevProps and p
Changed(prevProps, p) ==
  CASE p.initialSidebarState # prevProps.initialSidebarState -> "initialSidebarState"
    [] p.md # prevProps.md -> "theme"
    [] OTHER -> "other"

\* the parent renders the Sidebar with new props (directive, theme or any
\* other prop)
PropsChange(d, md) ==
  /\ phase = "mounted"
  /\ props' = [initialSidebarState |-> d, md |-> md]
  /\ Commit("componentDidUpdate", Changed(props, props'), props', window, <<>>)
  /\ UNCHANGED <<window, sidebarRef, windowListeners, documentListeners, phase>>

\* the viewport gets px pixels wide and window dispatches "resize"
ResizeEvent(px) ==
  /\ window.kind = "object"
  /\ window' = Window(px)
  /\ IF "checkMobileOnResize" \in windowListeners
       THEN Commit("checkMobileOnResize", "", props, window',
                   checkMobileOnResize(state, mediumBreakpointPx, window'))
       ELSE UNCHANGED <<state, pending, mediumBreakpointPx, dom, log>>
  /\ UNCHANGED <<props, sidebarRef, windowListeners, documentListeners, phase>>

\* document dispatches "mousedown" with the given target
MouseDownEvent(target) ==
  /\ window.kind = "object"
  /\ IF "handleClickOutside" \in documentListeners
       THEN Commit("handleClickOutside", target, props, window,
                   handleClickOutside(target, sidebarRef, mediumBreakpointPx, window))
       ELSE UNCHANGED <<state, pending, mediumBreakpointPx, dom, log>>
  /\ UNCHANGED <<window, props, sidebarRef, windowListeners, documentListeners,
                 phase>>

\* onClick of the close button or of the chevron button
ButtonClick(button) ==
  /\ phase = "mounted"
  /\ Commit("toggleCollapse", button, props, window, toggleCollapse(state))
  /\ UNCHANGED <<window, props, sidebarRef, windowListeners, documentListeners,
                 phase>>

\* SidebarNav invokes the collapseSidebar callback it was handed (SidebarNav
\* is rendered unless hideSidebarNav is set; when it invokes the callback is
\* its own affair)
NavCollapseSidebar ==
  /\ phase = "mounted"
  /\ Commit("toggleCollapse", "collapseSidebar", props, window,
            collapseSidebar(state))
  /\ UNCHANGED <<window, props, sidebarRef, windowListeners, documentListeners,
                 phase>>

\* SidebarNav reports hovering through hideParentScrollbar
HideParentScrollbar(newValue) ==
  /\ phase = "mounted"
  /\ Commit("hideScrollbar", "", props, window, hideScrollbar(newValue))
  /\ UNCHANGED <<window, props, sidebarRef, windowListeners, documentListeners,
                 phase>>

Buttons == {"Close", "ChevronRight"}

Next ==
  \/ componentDidMount
  \/ componentWillUnmount
  \/ \E d \in Directives, md \in Breakpoints : PropsChange(d, md)
  \/ \E px \in Widths : ResizeEvent(px)
  \/ \E target \in Targets : MouseDownEvent(target)
  \/ \E button \in Buttons : ButtonClick(button)
  \/ NavCollapseSidebar
  \/ \E newValue \in BOOLEAN : HideParentScrollbar(newValue)

Spec == Init /\ [][Next]_vars

TypeOK ==
  /\ window \in Windows
  /\ props.initialSidebarState \in Directives
  /\ props.md \in Breakpoints
  /\ phase \in {"constructed", "mounted", "unmounted", "failed", "threw"}
  /\ phase # "threw" => /\ state.collapsedSidebar \in BOOLEAN
                        /\ state.hideScrollbar \in BOOLEAN
  /\ sidebarRef \in {"null", "element"}

(***************************************************************************)
(* Properties                                                              *)
(***************************************************************************)
\* the step is an invocation of op (an invocation that leaves log as it is
\* read and wrote what the same invocation did before it: it changes nothing)
Invoked(op) == log' # log /\ log'.op = op

\* nothing of this.state but collapsedSidebar differs between s and t
SameButCollapsed(s, t) ==
  /\ s.lastInnerWidth = t.lastInnerWidth
  /\ s.hideScrollbar = t.hideScrollbar

\* the component is as the constructor left it (no handler has run yet)
AsConstructed == phase = "constructed" /\ log.op = "constructor"

\* C1: constructed with directive EXPANDED or COLLAPSED, the initial
\* collapsedSidebar is (directive = COLLAPSED), whatever the viewport width
\* and the breakpoint are, a missing window included.
C1_InitialExplicitDirective ==
  (AsConstructed /\ props.initialSidebarState \in {EXPANDED, COLLAPSED})
    => state.collapsedSidebar = (props.initialSidebarState = COLLAPSED)

\* constructed EXPANDED in a viewport narrower than the breakpoint
C1_Witness ==
  /\ AsConstructed
  /\ props.initialSidebarState = EXPANDED
  /\ window.kind = "object"
  /\ window.innerWidth = state.lastInnerWidth
  /\ Truthy(window.innerWidth)
  /\ JsLe(window.innerWidth, mediumBreakpointPx)
  /\ ~state.collapsedSidebar

\* the viewport width the constructor saw is px pixels
ConstructedAt(px) ==
  /\ AsConstructed
  /\ window.kind = "object"
  /\ state.lastInnerWidth = Num(px)

\* C2 as stated: constructed AUTO with breakpoint "100px", collapsedSidebar is
\* true at width 50, false at width 150 and true at width exactly 100.
C2_AutoAt100pxInclusive ==
  (props.initialSidebarState = AUTO /\ props.md = Md100px)
    => /\ ConstructedAt(50) => state.collapsedSidebar
       /\ ConstructedAt(150) => ~state.collapsedSidebar
       /\ ConstructedAt(100) => state.collapsedSidebar

\* C2 amended: constructed AUTO with breakpoint "100px", the threshold is 99.98
\* and collapsedSidebar is true at width 50, false at width 150 and false at
\* width exactly 100.
C2_AutoAt100pxMargin ==
  (props.initialSidebarState = AUTO /\ props.md = Md100px /\ AsConstructed)
    => /\ mediumBreakpointPx = [k |-> "number", v |-> 9998]
       /\ ConstructedAt(50) => state.collapsedSidebar
       /\ ConstructedAt(150) => ~state.collapsedSidebar
       /\ ConstructedAt(100) => ~state.collapsedSidebar

\* constructed AUTO at width exactly 100 with breakpoint "100px"
C2_Witness ==
  /\ props.initialSidebarState = AUTO
  /\ props.md = Md100px
  /\ ConstructedAt(100)
  /\ ~state.collapsedSidebar

\* C3: for directive AUTO or unset, shouldCollapse is true iff the viewport
\* width is available and <= breakpointPx, width 0 included, and false when the
\* width is unavailable.
C3_AutoIffWithinBreakpoint ==
  (AsConstructed /\ props.initialSidebarState \in {AUTO, unset})
    => state.collapsedSidebar
         = (window.kind = "object"
              /\ JsLe(state.lastInnerWidth, mediumBreakpointPx))

\* the resize at hand narrows the viewport to a width <= breakpointPx
Narrowing ==
  /\ JsLt(window'.innerWidth, state.lastInnerWidth)
  /\ JsLe(window'.innerWidth, mediumBreakpointPx)

\* C4: after a resize event whose new width is smaller than the recorded
\* width and <= breakpointPx, collapsedSidebar is true, whatever it was.
C4_NarrowingCollapses ==
  [][(Invoked("checkMobileOnResize") /\ Narrowing)
       => state'.collapsedSidebar]_vars

\* the last resize narrowed 200 to 80 under breakpoint "100px" and collapsed
\* an expanded sidebar
C4_Witness ==
  /\ phase = "mounted"
  /\ log.op = "checkMobileOnResize"
  /\ props.md = Md100px
  /\ log.read.lastInnerWidth = Num(200)
  /\ ~log.read.collapsedSidebar
  /\ window.innerWidth = Num(80)
  /\ state.collapsedSidebar

\* C5: no resize event changes collapsedSidebar from true to false, and a
\* resize that is not a narrowing to a width <= breakpointPx leaves
\* collapsedSidebar unchanged.
C5_ResizeNeverExpands ==
  [][Invoked("checkMobileOnResize")
       => /\ state.collapsedSidebar => state'.collapsedSidebar
          /\ ~Narrowing => state'.collapsedSidebar = state.collapsedSidebar]_vars

\* the last resize widened 80 to 200 under breakpoint "100px" and the sidebar
\* stayed collapsed
C5_Witness ==
  /\ phase = "mounted"
  /\ log.op = "checkMobileOnResize"
  /\ props.md = Md100px
  /\ log.read.lastInnerWidth = Num(80)
  /\ log.read.collapsedSidebar
  /\ window.innerWidth = Num(200)
  /\ state.lastInnerWidth = Num(200)
  /\ state.collapsedSidebar

\* C6: a mousedown outside the sidebar root while window.innerWidth <=
\* breakpointPx sets collapsedSidebar to true; a mousedown inside the root, or
\* above the breakpoint, leaves this.state unchanged.
C6_OutsideClickCollapses ==
  [][Invoked("handleClickOutside")
       => IF log'.arg = "outside" /\ JsLe(window.innerWidth, mediumBreakpointPx)
            THEN state'.collapsedSidebar /\ SameButCollapsed(state, state')
            ELSE state' = state]_vars

\* the last mousedown was outside the root at width 80 under breakpoint
\* "100px" and collapsed an expanded sidebar
C6_Witness ==
  /\ phase = "mounted"
  /\ log.op = "handleClickOutside"
  /\ log.arg = "outside"
  /\ props.md = Md100px
  /\ window.innerWidth = Num(80)
  /\ ~log.read.collapsedSidebar
  /\ state.collapsedSidebar

\* C7: each toggle flips collapsedSidebar, from either value and at any
\* width, and the second of two consecutive toggles restores the value the
\* first one found.
C7_ToggleFlips ==
  [][Invoked("toggleCollapse")
       => /\ state'.collapsedSidebar = ~state.collapsedSidebar
          /\ SameButCollapsed(state, state')
          /\ log.op = "toggleCollapse"
               => state'.collapsedSidebar = log.read.collapsedSidebar]_vars

\* the last toggle expanded a collapsed sidebar in a viewport below the
\* breakpoint
C7_Witness ==
  /\ phase = "mounted"
  /\ log.op = "toggleCollapse"
  /\ log.read.collapsedSidebar
  /\ ~state.collapsedSidebar
  /\ JsLe(window.innerWidth, mediumBreakpointPx)

\* the initialization rule, written out
InitializationRule(d, breakpointPx, win) ==
  CASE d = EXPANDED -> FALSE
    [] d = COLLAPSED -> TRUE
    [] d \in {AUTO, unset} ->
         /\ win.kind = "object"
         /\ Truthy(win.innerWidth)
         /\ JsLe(win.innerWidth, breakpointPx)

\* C8: when the directive prop changes after mount, collapsedSidebar becomes
\* what the initialization rule gives for the new directive, the breakpoint of
\* the new props and the current viewport width, whatever it was before.
C8_DirectiveChangeRecomputes ==
  [][props'.initialSidebarState # props.initialSidebarState
       => /\ state'.collapsedSidebar
               = InitializationRule(props'.initialSidebarState,
                                    mediumBreakpointPx', window)
          /\ SameButCollapsed(state, state')]_vars

\* the directive became AUTO in a wide viewport and a collapsed sidebar
\* expanded
C8_Witness ==
  /\ phase = "mounted"
  /\ log.op = "componentDidUpdate"
  /\ props.initialSidebarState = AUTO
  /\ log.read.collapsedSidebar
  /\ ~state.collapsedSidebar
  /\ ~JsLe(window.innerWidth, mediumBreakpointPx)

\* both listeners are registered exactly while the component is mounted
ListenersWhileMounted ==
  /\ ("checkMobileOnResize" \in windowListeners) = (phase = "mounted")
  /\ ("handleClickOutside" \in documentListeners) = (phase = "mounted")

\* C9: the resize and mousedown listeners are registered exactly while the
\* component is mounted, and after unmount no event invokes a handler or
\* changes this.state.
C9_ListenersScopedToMount ==
  /\ []ListenersWhileMounted
  /\ [][phase = "unmounted" => (state' = state /\ log' = log)]_vars

\* unmounted, with no listener left, the viewport has since narrowed below the
\* breakpoint and the sidebar is still expanded
C9_Witness ==
  /\ phase = "unmounted"
  /\ windowListeners = {}
  /\ documentListeners = {}
  /\ JsLt(window.innerWidth, state.lastInnerWidth)
  /\ JsLe(window.innerWidth, mediumBreakpointPx)
  /\ ~state.collapsedSidebar

C11_ResizeRecordsWidth ==
  /\ []((phase = "mounted" /\ log.op = "checkMobileOnResize")
          => state.lastInnerWidth = window.innerWidth)
  /\ [][Invoked("checkMobileOnResize")
          => /\ state'.lastInnerWidth = window'.innerWidth
             /\ log.op = "checkMobileOnResize"
                  => log'.read.lastInnerWidth = window.innerWidth]_vars

\* the last resize forced a collapse and recorded the narrower width
C11_Witness ==
  /\ phase = "mounted"
  /\ log.op = "checkMobileOnResize"
  /\ ~log.read.collapsedSidebar
  /\ state.collapsedSidebar
  /\ JsLt(window.innerWidth, log.read.lastInnerWidth)
  /\ state.lastInnerWidth = window.innerWidth

\* C12: where no global window is available, the constructor does not fail
\* and, with directive AUTO, leaves collapsedSidebar false, lastInnerWidth
\* Infinity and hideScrollbar false; the resize and mousedown handlers change
\* nothing there.
C12_NoWindowDefaults ==
  /\ [](window.kind # "object"
          => /\ phase # "threw"
             /\ (AsConstructed /\ props.initialSidebarState = AUTO)
                  => state = [collapsedSidebar |-> FALSE,
                              lastInnerWidth |-> Infinity,
                              hideScrollbar |-> FALSE])
  /\ [][(window.kind # "object"
           /\ (Invoked("checkMobileOnResize") \/ Invoked("handleClickOutside")))
          => state' = state]_vars

\* C13: lastInnerWidth changes only in the resize handler; hideScrollbar is
\* false at construction and changes only through the hideScrollbar setter;
\* the setter, the toggle, the mousedown handler and the recompute on a
\* directive change leave every field but their own unchanged.
C13_FieldsChangeByOwnOperation ==
  /\ [](AsConstructed => ~state.hideScrollbar)
  /\ [][/\ state'.lastInnerWidth # state.lastInnerWidth
             => Invoked("checkMobileOnResize")
        /\ state'.hideScrollbar # state.hideScrollbar
             => Invoked("hideScrollbar")
        /\ Invoked("hideScrollbar")
             => /\ state'.collapsedSidebar = state.collapsedSidebar
                /\ state'.lastInnerWidth = state.lastInnerWidth
        /\ (\/ Invoked("toggleCollapse")
            \/ Invoked("handleClickOutside")
            \/ Invoked("componentDidUpdate"))
             => SameButCollapsed(state, state')]_vars

\* the setter has just set hideScrollbar on a sidebar that was last given the
\* directive EXPANDED and that a handler had collapsed since; it touched
\* neither collapsedSidebar nor lastInnerWidth
C13_Witness ==
  /\ phase = "mounted"
  /\ log.op = "hideScrollbar"
  /\ ~log.read.hideScrollbar
  /\ state.hideScrollbar
  /\ log.read.collapsedSidebar
  /\ state.collapsedSidebar
  /\ props.initialSidebarState = EXPANDED
  /\ state.lastInnerWidth = log.read.lastInnerWidth
  /\ state.lastInnerWidth = window.innerWidth

\* C14: an update in which initialSidebarState is what it was (another prop
\* changed, the theme and its breakpoint included) leaves collapsedSidebar
\* unchanged; it refreshes mediumBreakpointPx, against which the handlers
\* compare from then on.
C14_SameDirectiveKeepsCollapsed ==
  /\ [](phase = "mounted" => mediumBreakpointPx = calculateMaxBreakpoint(props.md))
  /\ [][(props' # props
           /\ props'.initialSidebarState = props.initialSidebarState)
          => /\ state' = state
             /\ mediumBreakpointPx' = calculateMaxBreakpoint(props'.md)]_vars

\* the theme alone has just changed, to a breakpoint that the viewport is
\* within, and the sidebar of directive AUTO stayed expanded
C14_Witness ==
  /\ phase = "mounted"
  /\ log.op = "componentDidUpdate"
  /\ log.arg = "theme"
  /\ props.initialSidebarState = AUTO
  /\ Truthy(window.innerWidth)
  /\ JsLe(window.innerWidth, mediumBreakpointPx)
  /\ ~log.read.collapsedSidebar
  /\ ~state.collapsedSidebar

\* C15: the collapseSidebar callback of the navigation list is the toggle:
\* an invocation flips collapsedSidebar, so that invoking it on a collapsed
\* sidebar expands the sidebar.
C15_CollapseSidebarToggles ==
  [][(Invoked("toggleCollapse") /\ log'.arg = "collapseSidebar")
       => /\ state'.collapsedSidebar = ~state.collapsedSidebar
          /\ state.collapsedSidebar => ~state'.collapsedSidebar]_vars

\* the navigation list has just invoked collapseSidebar on a collapsed sidebar,
\* which is now expanded
C15_Witness ==
  /\ phase = "mounted"
  /\ log.op = "toggleCollapse"
  /\ log.arg = "collapseSidebar"
  /\ log.read.collapsedSidebar
  /\ ~state.collapsedSidebar

\* C16: what is rendered agrees with collapsedSidebar in every state in which
\* the component is on the page: aria-expanded is its negation, the content
\* panel and the chevron control both get it as isCollapsed, and so exactly
\* one of the panel and the chevron is shown.
C16_RenderAgreesWithCollapsed ==
  phase = "mounted"
    => /\ dom.ariaExpanded = ~state.collapsedSidebar
       /\ dom.content.isCollapsed = state.collapsedSidebar
       /\ dom.collapsedControl.isCollapsed = state.collapsedSidebar
       /\ (dom.content.marginLeft = "none") # (dom.collapsedControl.left = "twoXS")

\* an outside mousedown has just collapsed the sidebar: the panel is moved
\* out, the chevron moved in and aria-expanded is false
C16_Witness ==
  /\ phase = "mounted"
  /\ log.op = "handleClickOutside"
  /\ ~log.read.collapsedSidebar
  /\ state.collapsedSidebar
  /\ ~dom.ariaExpanded
  /\ dom.content.marginLeft = "-sidebar"
  /\ dom.collapsedControl.left = "twoXS"

====
